---- MODULE Spec2Model ----
(***************************************************************************)
(* Model of the model-selection and settings-synchronisation core of the   *)
(* GTK chat client (src/code.py): the model catalog (model_store), the     *)
(* display projection (display_model), the two pickers (combo_model and    *)
(* combo_model_settings), the re-entrancy guard (_updating_combo), the     *)
(* settings record with its config file, the model cache file, the fetch   *)
(* and chat workers and the callbacks they post to the GLib main loop.     *)
(*                                                                         *)
(* Strings are sequences of one-character strings; "" is << >>.            *)
(* List indices are 0-based as in the source; -1 is "no active row".       *)
(***************************************************************************)
EXTENDS Integers, Sequences, FiniteSets, TLC

(***************************************************************************)
(* Bounds of the model.                                                    *)
(***************************************************************************)
\* longest raw identifier list a cache file or a remote response holds
MaxListLen == 2
\* most fetch workers in flight at once
MaxFetch == 2
\* most pending GLib.timeout_add(100, _load_and_set_saved_model) timers
MaxTimers == 1
\* most "changed" notifications one main-loop callback may emit before the
\* cascade is declared runaway
CascadeFuel == 8
\* most chat-completion workers in flight at once
MaxSend == 2
\* most rows of the conversation
MaxBubbles == 4
\* longest models.json list in the specification of the list functions
MaxCatalog == 3

(***************************************************************************)
(* Strings.                                                                *)
(***************************************************************************)
\* str.lower() on one character
LowerChar(c) == IF c = "A" THEN "a" ELSE IF c = "B" THEN "b" ELSE c

\* str.lower()
Lower(s) == [i \in 1..Len(s) |-> LowerChar(s[i])]

RECURSIVE LStrip(_)
LStrip(s) == IF s # << >> /\ Head(s) = " " THEN LStrip(Tail(s)) ELSE s

RECURSIVE RStrip(_)
RStrip(s) == IF s # << >> /\ s[Len(s)] = " " THEN RStrip(SubSeq(s, 1, Len(s) - 1)) ELSE s

\* str.strip()
Strip(s) == RStrip(LStrip(s))

\* str.startswith(prefix)
StartsWith(s, prefix) == Len(prefix) <= Len(s) /\ SubSeq(s, 1, Len(prefix)) = prefix

\* the `in` operator on strings: sub in s
Contains(sub, s) == \E i \in 0..(Len(s) - Len(sub)) : SubSeq(s, i + 1, i + Len(sub)) = sub

\* the model identifiers of the model; "Ab" exercises case folding, "ba" a
\* contains-but-not-prefix match for the terms "a" and "b"
Ids == { <<"a">>, <<"A", "b">>, <<"b", "a">> }

\* the empty string
Empty == << >>

\* dict.get(key, None) when the key is absent, and a file that does not exist
NoVal == <<"<none>">>

\* texts the user may type into the search entry
SearchInputs == { << >>, <<"a">>, <<"A">>, <<" ", "b">>, <<"a", "b">>, <<"b", "a", " ">> }

\* all lists of identifiers of length <= n
RECURSIVE ListsUpTo(_)
ListsUpTo(n) == IF n = 0 THEN { << >> } ELSE LET prev == ListsUpTo(n - 1) IN prev \cup { Append(l, m) : l \in { p \in prev : Len(p) = n - 1 }, m \in Ids }

(***************************************************************************)
(* Catalog helpers.                                                        *)
(***************************************************************************)
\* membership of a value in a list
InList(m, l) == \E i \in 1..Len(l) : l[i] = m

\* index (0-based) of the first row equal to m: the loops
\* "for idx, row in enumerate(store): if row[0] == m: ...; break"
FirstIndex(m, l) == IF InList(m, l) THEN (CHOOSE i \in 1..Len(l) : l[i] = m /\ \A j \in 1..(i - 1) : l[j] # m) - 1 ELSE -1

\* fetch_models: "Deduplicate preserving order"
RECURSIVE DedupeFrom(_, _)
DedupeFrom(models, unique) == IF models = << >> THEN unique ELSE DedupeFrom(Tail(models), IF InList(Head(models), unique) THEN unique ELSE Append(unique, Head(models)))

\* the list returned as it was read
DedupeNone(models) == models

Dedupe(models) == DedupeFrom(models, << >>)

\* a filter that compares without folding the case of the row
ModelFilterFuncCaseSensitive(search, m) == IF search = Empty THEN TRUE ELSE Contains(search, m)

\* _model_filter_func: is a row of model_store visible under the search text
ModelFilterFunc(search, m) == IF search = Empty THEN TRUE ELSE Contains(search, Lower(m))

\* self.model_filter: the rows of model_store the visible func lets through
ModelFilter(store, search) == SelectSeq(store, LAMBDA m : ModelFilterFunc(search, m))

\* the visible rows in the order of the catalog
PopulateRowsCatalogOrder(store, search) == ModelFilter(store, search)

\* _populate_display_model: the rows appended to display_model
PopulateRows(store, search) ==
  LET search_text == Lower(search)
      filtered_items == ModelFilter(store, search)
      exact_matches == SelectSeq(filtered_items, LAMBDA m : Lower(m) = search_text)
      starts_with == SelectSeq(filtered_items, LAMBDA m : Lower(m) # search_text /\ StartsWith(Lower(m), search_text))
      contains == SelectSeq(filtered_items, LAMBDA m : Lower(m) # search_text /\ ~StartsWith(Lower(m), search_text))
  IN IF search_text # Empty THEN exact_matches \o starts_with \o contains ELSE filtered_items

(***************************************************************************)
(* The state the main loop's callbacks work on, as one record u:           *)
(*   model_store       rows of model_store_settings (= model_store)        *)
(*   display_model     rows of display_model, the chat picker's list       *)
(*   chat_active       combo_model.get_active()                            *)
(*   settings_active   combo_model_settings.get_active()                   *)
(*   settings_text     text of combo_model_settings' child entry           *)
(*   updating          _updating_combo                                     *)
(*   search_text       _model_search_text                                  *)
(*   settings          self.settings (a field is NoVal when absent)        *)
(*   config_state/data settings.json: "absent", "unreadable" or "ok", and  *)
(*                     its text when "ok"                                  *)
(* and four history fields  describing the callback that ran last:         *)
(*   notifs            "changed" notifications it delivered to the handlers*)
(*   guarded           one of them arrived while _updating_combo was set   *)
(*   frame_ok          the handlers left the state alone each time one did *)
(*   runaway           the cascade ran out of CascadeFuel                  *)
(***************************************************************************)
NoSettings == [model |-> NoVal, api_key |-> NoVal, base_url |-> NoVal, accent_color |-> NoVal, system_prompt |-> NoVal, note |-> NoVal]

\* the keys of a settings record in the order json.dump writes them: those
\* the program reads and "note", one it does not interpret
FieldNames == <<"model", "api_key", "base_url", "accent_color", "system_prompt", "note">>

\* what json.load returns for a file whose JSON value is not an object
NotARecord == [json |-> "list"]

\* json.dump: one character of a string as it is written into the file
EscapeChar(c) == IF c = "\"" THEN <<"\\", "\"">> ELSE IF c = "\\" THEN <<"\\", "\\">> ELSE IF c = "\n" THEN <<"\\", "n">> ELSE <<c>>

\* a string written between the quotes as it is
EscapeStringRaw(s) == s

\* json.dump: the characters of a string between its quotes
RECURSIVE EscapeString(_)
EscapeString(s) == IF s = << >> THEN << >> ELSE EscapeChar(Head(s)) \o EscapeString(Tail(s))

\* json.dump: the members of rec from key number i on, separated by ","; a
\* key is written as one symbol, a value character by character
RECURSIVE DumpMembers(_, _, _)
DumpMembers(rec, i, first) ==
  IF i > Len(FieldNames) THEN << >>
  ELSE IF rec[FieldNames[i]] = NoVal THEN DumpMembers(rec, i + 1, first)
  ELSE (IF first THEN << >> ELSE <<",">>) \o <<"\"", FieldNames[i], "\"", ":", "\"">> \o EscapeString(rec[FieldNames[i]]) \o <<"\"">> \o DumpMembers(rec, i + 1, FALSE)

\* json.dump(data, f): the text of the file
DumpJson(rec) == <<"{">> \o DumpMembers(rec, 1, TRUE) \o <<"}">>

\* json.load raising
Failed == [kind |-> "error", value |-> NoSettings]

\* json.load: the string that starts after the quote before position i
RECURSIVE ScanString(_, _, _)
ScanString(text, i, acc) ==
  IF i > Len(text) THEN [ok |-> FALSE, value |-> acc, next |-> i]
  ELSE IF text[i] = "\"" THEN [ok |-> TRUE, value |-> acc, next |-> i + 1]
  ELSE IF text[i] = "\n" THEN [ok |-> FALSE, value |-> acc, next |-> i]
  ELSE IF text[i] # "\\" THEN ScanString(text, i + 1, Append(acc, text[i]))
  ELSE IF i + 1 > Len(text) THEN [ok |-> FALSE, value |-> acc, next |-> i]
  ELSE IF text[i + 1] = "\"" THEN ScanString(text, i + 2, Append(acc, "\""))
  ELSE IF text[i + 1] = "\\" THEN ScanString(text, i + 2, Append(acc, "\\"))
  ELSE IF text[i + 1] = "n" THEN ScanString(text, i + 2, Append(acc, "\n"))
  ELSE [ok |-> FALSE, value |-> acc, next |-> i]

\* json.load: the members of an object from position i on, up to its "}"
RECURSIVE ParseMembers(_, _, _)
ParseMembers(text, i, rec) ==
  IF i + 4 > Len(text) THEN Failed
  ELSE IF text[i] # "\"" \/ text[i + 2] # "\"" \/ text[i + 3] # ":" \/ text[i + 4] # "\"" THEN Failed
  ELSE IF ~InList(text[i + 1], FieldNames) THEN Failed
  ELSE LET s == ScanString(text, i + 5, << >>)
           now == [rec EXCEPT ![text[i + 1]] = s.value]
       IN IF ~s.ok \/ s.next > Len(text) THEN Failed
          ELSE IF text[s.next] = "," THEN ParseMembers(text, s.next + 1, now)
          ELSE IF text[s.next] = "}" /\ s.next = Len(text) THEN [kind |-> "record", value |-> now]
          ELSE Failed

\* json.load(f): an object, some other JSON value, or an exception
ParseJson(text) ==
  IF text = <<"[", "]">> THEN [kind |-> "other", value |-> NotARecord]
  ELSE IF text = <<"{", "}">> THEN [kind |-> "record", value |-> NoSettings]
  ELSE IF Len(text) < 2 \/ text[1] # "{" THEN Failed
  ELSE ParseMembers(text, 2, NoSettings)

\* the part of u the program holds (everything but the history fields)
Core(u) == [model_store |-> u.model_store, display_model |-> u.display_model, chat_active |-> u.chat_active, settings_active |-> u.settings_active, settings_text |-> u.settings_text, updating |-> u.updating, search_text |-> u.search_text, settings |-> u.settings, config_state |-> u.config_state, config_data |-> u.config_data]

\* the history fields at the start of a main-loop callback
Fresh(u) == [u EXCEPT !.notifs = 0, !.guarded = FALSE, !.frame_ok = TRUE, !.runaway = FALSE]

\* row idx (0-based) of a list, NoVal when out of range
Row(l, idx) == IF idx >= 0 /\ idx < Len(l) THEN l[idx + 1] ELSE NoVal

\* load_settings(): {} when the file is missing or json.load raises, else
\* whatever json.load returns
LoadSettings(config_state, config_data) == IF config_state = "ok" THEN ParseJson(config_data).value ELSE NoSettings

\* save_settings(self.settings): json.dump of the whole record
SaveSettings(u) == [u EXCEPT !.config_state = "ok", !.config_data = DumpJson(u.settings)]

RECURSIVE ChatSetActive(_, _)
RECURSIVE SettingsSetActive(_, _)
RECURSIVE EmitChatChanged(_)
RECURSIVE EmitSettingsChanged(_)
RECURSIVE SyncModelComboChatPage(_, _)
RECURSIVE SyncModelComboInit(_, _)
RECURSIVE OnComboModelChanged(_)
RECURSIVE EntrySetText(_, _)

\* save_last_model reading the catalog row for either picker
SaveLastModelByStoreIndex(u, combo) ==
  IF u.updating THEN u
  ELSE LET idx == IF combo = "chat" THEN u.chat_active ELSE u.settings_active
           model_val == Row(u.model_store, idx)
       IN IF idx >= 0 /\ model_val # NoVal /\ model_val # Empty
          THEN SaveSettings([u EXCEPT !.settings.model = model_val])
          ELSE u

\* save_last_model without the test of _updating_combo
SaveLastModelUnguarded(u, combo) ==
  LET idx == IF combo = "chat" THEN u.chat_active ELSE u.settings_active
      model_val == IF combo = "chat" THEN Row(u.display_model, idx) ELSE Row(u.model_store, idx)
  IN IF idx >= 0 /\ model_val # NoVal /\ model_val # Empty
     THEN SaveSettings([u EXCEPT !.settings.model = model_val])
     ELSE u

\* save_last_model(combo), connected to "changed" of both pickers
SaveLastModel(u, combo) ==
  IF u.updating THEN u
  ELSE LET idx == IF combo = "chat" THEN u.chat_active ELSE u.settings_active
           model_val == IF combo = "chat" THEN Row(u.display_model, idx) ELSE Row(u.model_store, idx)
       IN IF idx >= 0 /\ model_val # NoVal /\ model_val # Empty
          THEN SaveSettings([u EXCEPT !.settings.model = model_val])
          ELSE u

\* combo.set_active(idx) on either picker: sets the active row and emits
\* "changed"; the target of sync_model_combo
SetActive(u, combo, idx) == IF combo = "chat" THEN ChatSetActive(u, idx) ELSE SettingsSetActive(u, idx)

\* sync_model_combo that does not reset _updating_combo
SyncModelComboGuardLeftSet(u, source) ==
  IF u.updating THEN u
  ELSE LET idx == IF source = "chat" THEN u.chat_active ELSE u.settings_active
           target == IF source = "chat" THEN "settings" ELSE "chat"
       IN IF idx >= 0
          THEN SetActive([u EXCEPT !.updating = TRUE], target, idx)
          ELSE u

\* sync_model_combo(source_combo, target_combo) of _build_chat_page
SyncModelComboChatPage(u, source) ==
  IF u.updating THEN u
  ELSE LET idx == IF source = "chat" THEN u.chat_active ELSE u.settings_active
           target == IF source = "chat" THEN "settings" ELSE "chat"
       IN IF idx >= 0
          THEN [SetActive([u EXCEPT !.updating = TRUE], target, idx) EXCEPT !.updating = FALSE]
          ELSE u

\* sync_model_combo(source_combo, target_combo) of __init__
SyncModelComboInit(u, source) ==
  IF u.updating THEN u
  ELSE LET idx == IF source = "chat" THEN u.chat_active ELSE u.settings_active
           target == IF source = "chat" THEN "settings" ELSE "chat"
       IN IF idx >= 0
          THEN [SetActive([u EXCEPT !.updating = TRUE], target, idx) EXCEPT !.updating = FALSE]
          ELSE u

\* _on_combo_model_changed reading the catalog row instead of the display row
OnComboModelChangedByStoreIndex(u) ==
  IF u.updating THEN u
  ELSE LET idx == u.chat_active
       IN IF idx >= 0 /\ idx < Len(u.display_model) /\ idx < Len(u.model_store)
          THEN EntrySetText(u, u.model_store[idx + 1])
          ELSE u

\* _on_combo_model_changed: copies the picked identifier into the settings
\* picker's entry
OnComboModelChanged(u) ==
  IF u.updating THEN u
  ELSE LET idx == u.chat_active
       IN IF idx >= 0 /\ idx < Len(u.display_model)
          THEN EntrySetText(u, u.display_model[idx + 1])
          ELSE u

\* the handlers connected to combo_model "changed", in connection order
ChatHandlers(u) == SaveLastModel(OnComboModelChanged(SyncModelComboChatPage(u, "chat")), "chat")

\* the handlers connected to combo_model_settings "changed", in connection order
SettingsHandlers(u) == SaveLastModel(SyncModelComboInit(SyncModelComboChatPage(u, "settings"), "settings"), "settings")

\* delivery of one "changed" notification to the handlers hs, with the
\* history fields kept
Deliver(u, after) ==
  [after EXCEPT !.guarded = after.guarded \/ u.updating,
                !.frame_ok = after.frame_ok /\ (u.updating => Core(after) = Core(u))]

\* "changed" of combo_model
EmitChatChanged(u) ==
  IF u.notifs >= CascadeFuel THEN [u EXCEPT !.runaway = TRUE]
  ELSE LET v == [u EXCEPT !.notifs = u.notifs + 1] IN Deliver(v, ChatHandlers(v))

\* "changed" of combo_model_settings: GtkComboBox first copies the active
\* row's text into the child entry, then the connected handlers run
EmitSettingsChanged(u) ==
  IF u.notifs >= CascadeFuel THEN [u EXCEPT !.runaway = TRUE]
  ELSE LET w == IF u.settings_active >= 0 THEN [u EXCEPT !.settings_text = u.model_store[u.settings_active + 1]] ELSE u
           v == [w EXCEPT !.notifs = w.notifs + 1]
       IN Deliver(v, SettingsHandlers(v))

\* combo_model.set_active(idx): nothing happens when the row is already the
\* active one (or none is and none is asked for); an index past the end
\* leaves no row active
ChatSetActive(u, idx) ==
  IF idx = u.chat_active THEN u
  ELSE EmitChatChanged([u EXCEPT !.chat_active = IF idx < Len(u.display_model) THEN idx ELSE -1])

\* combo_model_settings.set_active(idx)
SettingsSetActive(u, idx) ==
  IF idx = u.settings_active THEN u
  ELSE EmitSettingsChanged([u EXCEPT !.settings_active = IF idx < Len(u.model_store) THEN idx ELSE -1])

\* entry.set_text(text) on the settings picker's child entry: no signal when
\* the text is unchanged; otherwise GtkComboBox drops the active row and
\* emits "changed"
EntrySetText(u, text) ==
  IF u.settings_text = text THEN u
  ELSE EmitSettingsChanged([u EXCEPT !.settings_text = text, !.settings_active = -1])

\* model_store.clear(): the settings picker loses its active row; its entry
\* keeps its text (the notifications find get_active() < 0)
ClearStore(u) == [u EXCEPT !.model_store = << >>, !.settings_active = -1]

\* display_model.clear(): the chat picker loses its active row
ClearDisplay(u) == [u EXCEPT !.display_model = << >>, !.chat_active = -1]

\* _populate_display_model
PopulateDisplayModel(u) == [ClearDisplay(u) EXCEPT !.display_model = PopulateRows(u.model_store, u.search_text)]

\* _on_model_search_changed(entry), entry holding the text raw
OnModelSearchChanged(u, raw) ==
  IF u.updating THEN u
  ELSE LET text == Lower(Strip(raw))
           a == PopulateDisplayModel([u EXCEPT !.search_text = text])
           b == ChatSetActive([a EXCEPT !.updating = TRUE], -1)
           c == IF Len(b.display_model) > 0 THEN ChatSetActive(b, Len(b.display_model) \div 2) ELSE b
       IN [c EXCEPT !.updating = FALSE]

\* the saved model selected in the chat picker only
LoadAndSetSavedModelChatOnly(u) ==
  LET saved_model == u.settings.model
  IN IF saved_model # NoVal /\ saved_model # Empty
     THEN LET a == [u EXCEPT !.updating = TRUE]
              i == FirstIndex(saved_model, a.display_model)
              b == IF i >= 0 THEN ChatSetActive(a, i) ELSE a
          IN [b EXCEPT !.updating = FALSE]
     ELSE u

\* _load_and_set_saved_model
LoadAndSetSavedModel(u) ==
  LET saved_model == u.settings.model
  IN IF saved_model # NoVal /\ saved_model # Empty
     THEN LET a == [u EXCEPT !.updating = TRUE]
              i == FirstIndex(saved_model, a.display_model)
              b == IF i >= 0 THEN ChatSetActive(a, i) ELSE a
              j == FirstIndex(saved_model, b.model_store)
              c == IF j >= 0 THEN SettingsSetActive(b, j) ELSE b
          IN [c EXCEPT !.updating = FALSE]
     ELSE u

\* populate_models without the clear() calls: rows are appended to what is there
PopulateModelsNoClear(u, models) ==
  [u EXCEPT !.model_store = u.model_store \o models, !.display_model = u.display_model \o models]

\* populate_models(models): both stores and the display list are replaced by
\* models (the search text is not consulted)
PopulateModels(u, models) ==
  LET a == [ClearStore(u) EXCEPT !.model_store = models]
  IN [ClearDisplay(a) EXCEPT !.display_model = models]

\* the rows of color_store_settings
Colors == << <<"blue">>, <<"red">>, <<"green">>, <<"default">> >>

\* "https://api.openai.com/", the default of the Base URL entry
DefaultBaseUrl == <<"u", "/">>

\* on_save_clicked, the entries of the settings page holding api_text and
\* url_text and the colour picker showing row color_idx; no widget named
\* entry_system_buffer exists, so system_prompt stays ""
OnSaveClicked(u, api_text, url_text, color_idx) ==
  LET api_key == Strip(api_text)
      url == Strip(url_text)
      system_prompt == Empty
      default_model == Strip(u.settings_text)
      accent_color == IF color_idx >= 0 THEN Colors[color_idx + 1] ELSE <<"blue">>
      base_url == IF url # Empty /\ url[Len(url)] # "/" THEN Append(url, "/") ELSE url
      s1 == [u.settings EXCEPT !.api_key = api_key, !.base_url = base_url, !.accent_color = accent_color]
      s2 == IF default_model # Empty THEN [s1 EXCEPT !.model = default_model] ELSE s1
      s3 == IF system_prompt # Empty THEN [s2 EXCEPT !.system_prompt = system_prompt] ELSE s2
      a == SaveSettings([u EXCEPT !.settings = s3])
  IN IF default_model # Empty
     THEN LET b == IF InList(default_model, a.model_store) THEN a ELSE [a EXCEPT !.model_store = Append(a.model_store, default_model)]
              c == PopulateDisplayModel(b)
          IN IF Len(c.display_model) > 0 THEN ChatSetActive(c, Len(c.display_model) \div 2) ELSE c
     ELSE a

(***************************************************************************)
(* The program's state.                                                    *)
(***************************************************************************)
VARIABLES
  model_store,      \* model_store_settings / model_store: the catalog
  display_model,    \* display_model: the chat picker's item list
  chat_active,      \* active row of combo_model, -1 when none
  settings_active,  \* active row of combo_model_settings, -1 when none
  settings_text,    \* text of combo_model_settings' entry
  updating,         \* _updating_combo
  search_text,      \* _model_search_text
  settings,         \* self.settings
  config_state,     \* settings.json: "absent", "unreadable", "ok"
  config_data,      \* settings.json: its text when "ok"
  notifs,           \* history: notifications delivered by the last callback
  guarded,          \* history: one arrived under the guard
  frame_ok,         \* history: the guarded ones changed nothing
  runaway,          \* history: the cascade exceeded CascadeFuel
  entry_api,        \* text of the API Key entry
  entry_url,        \* text of the Base URL entry
  color_active,     \* active row of combo_color_settings
  entry_system,     \* text of the System Prompt entry of the settings page
  cache_state,      \* models.json: "absent", "malformed", "ok"
  cache_list,       \* models.json: its list when "ok"
  workers,          \* fetch worker threads: position and local `models`
  idle,             \* callbacks posted with GLib.idle_add, oldest first
  timers,           \* pending GLib.timeout_add(100, ...) callbacks
  last,             \* history: the operation that ran last and what it saw
  applied,          \* history: the list last loaded wholesale into the catalog
  entry_chat,       \* text of the message entry
  bubbles,          \* roles of the rows of chat_list_box, oldest first
  btn_send_sensitive, \* btn_send.get_sensitive()
  chat_workers,     \* chat-completion worker threads: position and `model`
  search_entry,     \* text of model_search_entry
  info              \* text shown by info_label, NoVal while nothing is shown

uiVars == <<model_store, display_model, chat_active, settings_active, settings_text, updating, search_text, settings, config_state, config_data, notifs, guarded, frame_ok, runaway>>

vars == <<model_store, display_model, chat_active, settings_active, settings_text, updating, search_text, settings, config_state, config_data, notifs, guarded, frame_ok, runaway, entry_api, entry_url, color_active, entry_system, cache_state, cache_list, workers, idle, timers, last, applied, entry_chat, bubbles, btn_send_sensitive, chat_workers, search_entry, info>>

\* the widgets and threads of the chat page that on_send_clicked starts
chatVars == <<entry_chat, bubbles, btn_send_sensitive, chat_workers, search_entry>>

\* the current state as the record the callbacks work on
Cur == [model_store |-> model_store, display_model |-> display_model, chat_active |-> chat_active, settings_active |-> settings_active, settings_text |-> settings_text, updating |-> updating, search_text |-> search_text, settings |-> settings, config_state |-> config_state, config_data |-> config_data, notifs |-> notifs, guarded |-> guarded, frame_ok |-> frame_ok, runaway |-> runaway]

\* the state a callback leaves behind
Install(u) ==
  /\ model_store' = u.model_store
  /\ display_model' = u.display_model
  /\ chat_active' = u.chat_active
  /\ settings_active' = u.settings_active
  /\ settings_text' = u.settings_text
  /\ updating' = u.updating
  /\ search_text' = u.search_text
  /\ settings' = u.settings
  /\ config_state' = u.config_state
  /\ config_data' = u.config_data
  /\ notifs' = u.notifs
  /\ guarded' = u.guarded
  /\ frame_ok' = u.frame_ok
  /\ runaway' = u.runaway

\* what the pickers show: the chat picker its active row of display_model,
\* the settings picker the text of its entry
ChatShown == Row(display_model, chat_active)

SettingsShown == settings_text

\* __init__ returned and Gtk.main() runs: the window exists
Running == last.op # "crashed"

\* the callbacks that run without the user having done anything
StartupOps == {"init", "restore"}

\* the history record written by an operation: its name, the chat picker's
\* selection it found, and whether only startup callbacks have run so far
Event(op) == [op |-> op, chat_before |-> ChatShown, startup |-> last.startup /\ op \in StartupOps]

\* a callback in the idle queue: its kind, the list it carries, the worker
\* slot that posted it, and whether it is that worker's last callback
Callback(kind, models, slot, final) == [kind |-> kind, models |-> models, slot |-> slot, final |-> final, role |-> "none", text |-> "none", arg |-> NoVal]

\* a posted set_info(text)
InfoCallback(text, slot, final) == [kind |-> "set_info", models |-> << >>, slot |-> slot, final |-> final, role |-> "none", text |-> text, arg |-> NoVal]

\* hasattr(self, "info_label"): no statement of the program assigns it
HasInfoLabel == FALSE

\* set_info(text): what info_label shows afterwards
SetInfo(shown, text) == IF HasInfoLabel THEN text ELSE shown

\* a callback posted by a chat worker; an _append_bubble callback carries
\* the role of the bubble
ChatCallback(kind, role, slot, final) == [kind |-> kind, models |-> << >>, slot |-> slot, final |-> final, role |-> role, text |-> "none", arg |-> NoVal]

\* a posted _append_bubble(role, arg), arg being the value the worker passes
\* as the bubble's text
BubbleCallback(role, arg, slot) == [kind |-> "bubble", models |-> << >>, slot |-> slot, final |-> FALSE, role |-> role, text |-> "none", arg |-> arg]

\* a fetch worker slot not in use
IdleWorker == [pc |-> "idle", models |-> << >>, requested |-> FALSE, before |-> << >>]

\* a chat worker slot not in use
IdleChatWorker == [pc |-> "idle", model |-> Empty]

\* the texts the user may leave in the message entry
ChatInputs == { << >>, <<" ">>, <<"h", " ">> }

\* how a chat-completion request ends: a reply, an HTTP error status, or
\* any other exception
Outcomes == {"ok", "http_error", "error"}

\* a settings.json: "absent", "unreadable" (open raises) or "ok" with text
ConfigFile(state, text) == [state |-> state, text |-> text]

\* the settings.json files at startup: none, one that cannot be opened, and
\* one written by the program for each model it may have stored
ConfigFiles == { ConfigFile("absent", << >>), ConfigFile("unreadable", << >>) } \cup { ConfigFile("ok", DumpJson([NoSettings EXCEPT !.model = m])) : m \in Ids \cup {NoVal} }

\* {"note":"x\"\\\n"}: a file with a key the program does not interpret,
\* whose value holds a quote, a backslash and a newline
NoteFile == <<"{", "\"", "note", "\"", ":", "\"", "x", "\\", "\"", "\\", "\\", "\\", "n", "\"", "}">>

\* a file cut off inside its first key, and one holding the JSON list []
TruncatedFile == <<"{", "\"">>

ListFile == <<"[", "]">>

\* the settings.json files at startup in the specification of the settings
\* store: none, an unopenable one, files that are not a JSON object, and
\* files written by the program
SettingsFiles ==
  { ConfigFile("absent", << >>), ConfigFile("unreadable", << >>), ConfigFile("ok", TruncatedFile), ConfigFile("ok", ListFile), ConfigFile("ok", NoteFile) }
    \cup { ConfigFile("ok", DumpJson([NoSettings EXCEPT !.model = m, !.base_url = b])) : m \in {NoVal, <<"a">>}, b \in {NoVal, <<"h", "/">>} }

\* texts the user may leave in the Base URL entry and in the API Key entry
UrlInputs == { << >>, <<" ">>, <<"h">>, <<"h", "/", " ">> }

ApiInputs == { << >>, <<"k", " ">>, <<"\"">>, <<"\\", "n">> }

\* texts the user may leave in the System Prompt entry
SystemInputs == { << >>, <<"p", " ">> }

\* a models.json: "absent", "malformed" or "ok" with the list it holds
CacheFile(state, list) == [state |-> state, list |-> list]

\* the models.json files at startup with lists of length <= n
CacheFiles(n) == { CacheFile("absent", << >>), CacheFile("malformed", << >>) } \cup { CacheFile("ok", l) : l \in ListsUpTo(n) }

\* the cache read as if startup fetched a list when it finds no usable file
LoadCachedModelsOrFetch(state, list) == IF state = "ok" THEN list ELSE << <<"a">> >>

\* __init__, "Automatically load models from models.json": the rows it
\* appends to model_store_settings and display_model
LoadCachedModels(state, list) == IF state = "ok" THEN list ELSE << >>

(***************************************************************************)
(* MainWindow.__init__: the state when the main loop starts, for the       *)
(* config files and cache files given. When load_settings returns a value  *)
(* that is not a dict, self.settings.get raises in _build_chat_page, before *)
(* the cache is read and the settings page is built: no window exists.     *)
(***************************************************************************)
InitFrom(configs, caches) ==
  /\ \E c \in configs : config_state = c.state /\ config_data = c.text
  /\ \E c \in caches : cache_state = c.state /\ cache_list = c.list
  /\ settings = LoadSettings(config_state, config_data)
  /\ model_store = IF settings = NotARecord THEN << >> ELSE LoadCachedModels(cache_state, cache_list)
  /\ display_model = model_store
  /\ chat_active = -1
  /\ settings_active = -1
  /\ settings_text = Empty
  /\ updating = FALSE
  /\ search_text = Empty
  /\ notifs = 0
  /\ guarded = FALSE
  /\ frame_ok = TRUE
  /\ runaway = FALSE
  /\ entry_api = IF settings = NotARecord \/ settings.api_key = NoVal THEN Empty ELSE settings.api_key
  /\ entry_url = IF settings = NotARecord THEN Empty ELSE IF settings.base_url = NoVal THEN DefaultBaseUrl ELSE settings.base_url
  /\ color_active = IF settings # NotARecord /\ settings.accent_color # NoVal /\ InList(settings.accent_color, Colors) THEN FirstIndex(settings.accent_color, Colors) ELSE 0
  /\ entry_system = IF settings = NotARecord \/ settings.system_prompt = NoVal THEN Empty ELSE settings.system_prompt
  /\ workers = [t \in 1..MaxFetch |-> IdleWorker]
  /\ idle = IF settings = NotARecord THEN << >> ELSE << Callback("restore", << >>, 0, FALSE) >>
  /\ timers = 0
  /\ last = [op |-> IF settings = NotARecord THEN "crashed" ELSE "init", chat_before |-> NoVal, startup |-> TRUE]
  /\ applied = model_store
  /\ entry_chat = Empty
  /\ bubbles = << >>
  /\ btn_send_sensitive = TRUE
  /\ chat_workers = [t \in 1..MaxSend |-> IdleChatWorker]
  /\ search_entry = Empty
  /\ info = NoVal

Init == InitFrom(ConfigFiles, CacheFiles(MaxListLen))

(***************************************************************************)
(* Main-loop callbacks.                                                    *)
(***************************************************************************)
\* the user picks row i of the chat picker's popup
PickChatModel(i) ==
  /\ Running
  /\ i \in 0..(Len(display_model) - 1)
  /\ i # chat_active
  /\ Install(ChatSetActive(Fresh(Cur), i))
  /\ last' = Event("pick")
  /\ UNCHANGED <<entry_api, entry_url, color_active, entry_system, cache_state, cache_list, workers, idle, timers, applied, chatVars, info>>

\* the user edits the search entry, which then holds raw
SearchChanged(raw) ==
  /\ Running
  /\ raw # search_entry
  /\ search_entry' = raw
  /\ Install(OnModelSearchChanged(Fresh(Cur), raw))
  /\ last' = Event("search")
  /\ UNCHANGED <<entry_api, entry_url, color_active, entry_system, cache_state, cache_list, workers, idle, timers, applied, entry_chat, bubbles, btn_send_sensitive, chat_workers, info>>

\* on_color_changed: the user picks row i of the accent colour picker; the
\* colour is put into self.settings, which is written to settings.json
ColorChanged(i) ==
  /\ Running
  /\ i \in 0..(Len(Colors) - 1)
  /\ i # color_active
  /\ color_active' = i
  /\ Install(SaveSettings([Fresh(Cur) EXCEPT !.settings = [settings EXCEPT !.accent_color = Colors[i + 1]]]))
  /\ last' = Event("color")
  /\ UNCHANGED <<entry_api, entry_url, entry_system, cache_state, cache_list, workers, idle, timers, applied, chatVars, info>>

\* on_fetch_models_clicked: the catalog is cleared and a worker started
FetchModelsClicked ==
  /\ Running
  /\ \E t \in 1..MaxFetch :
       /\ workers[t].pc = "idle"
       /\ \A s \in 1..(t - 1) : workers[s].pc # "idle"
       /\ workers' = [workers EXCEPT ![t] = [pc |-> "fetch", models |-> << >>, requested |-> FALSE, before |-> <<model_store, display_model>>]]
  /\ Install(ClearStore(Fresh(Cur)))
  /\ info' = SetInfo(info, "fetching")
  /\ last' = Event("fetch")
  /\ UNCHANGED <<entry_api, entry_url, color_active, entry_system, cache_state, cache_list, idle, timers, applied, chatVars>>

\* on_save_clicked
SaveClicked ==
  /\ Running
  /\ Install(OnSaveClicked(Fresh(Cur), entry_api, entry_url, color_active))
  /\ info' = SetInfo(info, "saved")
  /\ last' = Event("save")
  /\ UNCHANGED <<entry_api, entry_url, color_active, entry_system, cache_state, cache_list, workers, idle, timers, applied, chatVars>>

\* the user edits the Base URL entry of the settings page
EditUrl(text) ==
  /\ Running
  /\ text # entry_url
  /\ entry_url' = text
  /\ UNCHANGED <<uiVars, entry_api, color_active, entry_system, cache_state, cache_list, workers, idle, timers, last, applied, chatVars, info>>

\* the user edits the API Key entry of the settings page
EditApi(text) ==
  /\ Running
  /\ text # entry_api
  /\ entry_api' = text
  /\ UNCHANGED <<uiVars, entry_url, color_active, entry_system, cache_state, cache_list, workers, idle, timers, last, applied, chatVars, info>>

\* the user edits the System Prompt entry of the settings page
EditSystem(text) ==
  /\ Running
  /\ text # entry_system
  /\ entry_system' = text
  /\ UNCHANGED <<uiVars, entry_api, entry_url, color_active, cache_state, cache_list, workers, idle, timers, last, applied, chatVars, info>>

\* the worker slot a dispatched callback frees
Release(cb) == IF cb.final THEN [workers EXCEPT ![cb.slot] = IdleWorker] ELSE workers

\* the main loop runs _load_and_set_saved_model, posted by __init__
IdleRestore ==
  /\ idle # << >> /\ Head(idle).kind = "restore"
  /\ Install(LoadAndSetSavedModel(Fresh(Cur)))
  /\ idle' = Tail(idle)
  /\ last' = Event("restore")
  /\ UNCHANGED <<entry_api, entry_url, color_active, entry_system, cache_state, cache_list, workers, timers, applied, chatVars, info>>

\* the main loop runs populate_models(models), posted by a fetch worker
IdlePopulate ==
  /\ idle # << >> /\ Head(idle).kind = "populate"
  /\ Len(Head(idle).models) > 0 => timers < MaxTimers
  /\ Install(PopulateModels(Fresh(Cur), Head(idle).models))
  /\ timers' = IF Len(Head(idle).models) > 0 THEN timers + 1 ELSE timers
  /\ idle' = Tail(idle)
  /\ workers' = Release(Head(idle))
  /\ last' = Event("populate")
  /\ applied' = Head(idle).models
  /\ UNCHANGED <<entry_api, entry_url, color_active, entry_system, cache_state, cache_list, chatVars, info>>

\* the main loop runs set_info(text): no widget named info_label exists, so
\* nothing is shown
IdleSetInfo ==
  /\ idle # << >> /\ Head(idle).kind = "set_info"
  /\ idle' = Tail(idle)
  /\ workers' = Release(Head(idle))
  /\ info' = SetInfo(info, Head(idle).text)
  /\ last' = IF Head(idle).text = "fetch_error" THEN Event("fetch_failed") ELSE last
  /\ UNCHANGED <<uiVars, entry_api, entry_url, color_active, entry_system, cache_state, cache_list, timers, applied, chatVars>>

\* a 100 ms timer set by populate_models fires: _load_and_set_saved_model
TimerRestore ==
  /\ timers > 0
  /\ Install(LoadAndSetSavedModel(Fresh(Cur)))
  /\ timers' = timers - 1
  /\ last' = Event("restore")
  /\ UNCHANGED <<entry_api, entry_url, color_active, entry_system, cache_state, cache_list, workers, idle, applied, chatVars, info>>

(***************************************************************************)
(* Fetch worker threads (on_fetch_models_clicked.worker).                  *)
(***************************************************************************)
\* fetch_models: models.json exists and parses; its list is deduplicated
\* and returned, no request is made
WorkerFetchCached(t) ==
  /\ workers[t].pc = "fetch"
  /\ cache_state = "ok"
  /\ workers' = [workers EXCEPT ![t] = [pc |-> "write", models |-> Dedupe(cache_list), requested |-> FALSE, before |-> << >>]]
  /\ UNCHANGED <<uiVars, entry_api, entry_url, color_active, entry_system, cache_state, cache_list, idle, timers, last, applied, chatVars, info>>

\* fetch_models: no usable models.json; the list-models request succeeds
\* with the identifiers resp, which are deduplicated
WorkerFetchRemote(t, resp) ==
  /\ workers[t].pc = "fetch"
  /\ cache_state # "ok"
  /\ workers' = [workers EXCEPT ![t] = [pc |-> "save", models |-> Dedupe(resp), requested |-> TRUE, before |-> << >>]]
  /\ UNCHANGED <<uiVars, entry_api, entry_url, color_active, entry_system, cache_state, cache_list, idle, timers, last, applied, chatVars, info>>

\* fetch_models: no usable models.json; the request raises, the worker posts
\* set_info("Error fetching models: ...") and ends
WorkerFetchFailed(t) ==
  /\ workers[t].pc = "fetch"
  /\ cache_state # "ok"
  /\ workers' = [workers EXCEPT ![t] = [pc |-> "posted", models |-> << >>, requested |-> TRUE, before |-> workers[t].before]]
  /\ idle' = Append(idle, InfoCallback("fetch_error", t, TRUE))
  /\ UNCHANGED <<uiVars, entry_api, entry_url, color_active, entry_system, cache_state, cache_list, timers, last, applied, chatVars, info>>

\* fetch_models: "Save to models.json for future use"
WorkerSave(t) ==
  /\ workers[t].pc = "save"
  /\ cache_state' = "ok"
  /\ cache_list' = workers[t].models
  /\ workers' = [workers EXCEPT ![t].pc = "write"]
  /\ UNCHANGED <<uiVars, entry_api, entry_url, color_active, entry_system, idle, timers, last, applied, chatVars, info>>

\* worker: "Save models to models.json in config dir"
WorkerWrite(t) ==
  /\ workers[t].pc = "write"
  /\ cache_state' = "ok"
  /\ cache_list' = workers[t].models
  /\ workers' = [workers EXCEPT ![t].pc = "post"]
  /\ UNCHANGED <<uiVars, entry_api, entry_url, color_active, entry_system, idle, timers, last, applied, chatVars, info>>

\* worker: GLib.idle_add(self.populate_models, models) and
\* GLib.idle_add(self.set_info, ...)
WorkerPost(t) ==
  /\ workers[t].pc = "post"
  /\ idle' = idle \o << Callback("populate", workers[t].models, t, FALSE), InfoCallback("fetched", t, TRUE) >>
  /\ workers' = [workers EXCEPT ![t].pc = "posted"]
  /\ UNCHANGED <<uiVars, entry_api, entry_url, color_active, entry_system, cache_state, cache_list, timers, last, applied, chatVars, info>>

\* fetch_models: writing models.json raises; the exception is printed and
\* the list returned all the same
WorkerSaveFailed(t) ==
  /\ workers[t].pc = "save"
  /\ workers' = [workers EXCEPT ![t].pc = "write"]
  /\ UNCHANGED <<uiVars, entry_api, entry_url, color_active, entry_system, cache_state, cache_list, idle, timers, last, applied, chatVars, info>>

\* worker: writing models.json raises; the exception is printed and the
\* callbacks are posted all the same
WorkerWriteFailed(t) ==
  /\ workers[t].pc = "write"
  /\ workers' = [workers EXCEPT ![t].pc = "post"]
  /\ UNCHANGED <<uiVars, entry_api, entry_url, color_active, entry_system, cache_state, cache_list, idle, timers, last, applied, chatVars, info>>

\* the steps of a fetch worker whose writes of models.json fail
WorkerWriteFails ==
  \/ \E t \in 1..MaxFetch : WorkerSaveFailed(t)
  \/ \E t \in 1..MaxFetch : WorkerWriteFailed(t)

\* on_fetch_models_clicked while no fetch is outstanding
FetchModelsClickedAlone ==
  /\ \A t \in 1..MaxFetch : workers[t].pc = "idle"
  /\ FetchModelsClicked

\* the steps of the fetch workers
WorkerStep ==
  \/ \E t \in 1..MaxFetch : WorkerFetchCached(t)
  \/ \E t \in 1..MaxFetch, resp \in ListsUpTo(MaxListLen) : WorkerFetchRemote(t, resp)
  \/ \E t \in 1..MaxFetch : WorkerFetchFailed(t)
  \/ \E t \in 1..MaxFetch : WorkerSave(t)
  \/ \E t \in 1..MaxFetch : WorkerWrite(t)
  \/ \E t \in 1..MaxFetch : WorkerPost(t)

\* the callbacks the main loop dispatches by itself
MainLoopStep ==
  \/ IdleRestore
  \/ IdlePopulate
  \/ IdleSetInfo
  \/ TimerRestore

(***************************************************************************)
(* Sending a message (on_send_clicked) and the chat worker threads.        *)
(***************************************************************************)
\* get_selected_model: the stripped text of the settings picker's entry
GetSelectedModel(u) == Strip(u.settings_text)

\* on_send_clicked, "Save last chosen model to settings.json": the file is
\* read back, its model replaced and the file rewritten; self.settings is
\* not touched
SendSavesModel(u) ==
  LET file == LoadSettings(u.config_state, u.config_data)
      typed == Strip(u.settings_text)
      chosen == IF u.chat_active >= 0 /\ u.chat_active < Len(u.display_model) THEN u.display_model[u.chat_active + 1] ELSE typed
  IN [u EXCEPT !.config_state = "ok", !.config_data = DumpJson([file EXCEPT !.model = chosen])]

\* chat workers that have not delivered their bubble and button callbacks
InFlight == Cardinality({t \in 1..MaxSend : chat_workers[t].pc # "idle"})

\* on_send_clicked, lines 1139-1147: the early returns after set_info
SendRejected ==
  /\ info' = SetInfo(info, IF GetSelectedModel(Cur) = Empty THEN "no_model" ELSE "no_message")
  /\ last' = Event("rejected")
  /\ UNCHANGED <<uiVars, chatVars>>

\* on_send_clicked, lines 1149-1192: the user bubble is appended, the entry
\* emptied, the model written to settings.json, the Send button made
\* insensitive and a worker started
SendAccepted ==
  /\ Len(bubbles) + InFlight + 2 <= MaxBubbles
  /\ \E t \in 1..MaxSend :
       /\ chat_workers[t].pc = "idle"
       /\ \A s \in 1..(t - 1) : chat_workers[s].pc # "idle"
       /\ chat_workers' = [chat_workers EXCEPT ![t] = [pc |-> "request", model |-> GetSelectedModel(Cur)]]
  /\ bubbles' = Append(bubbles, "user")
  /\ entry_chat' = Empty
  /\ Install(SendSavesModel(Fresh(Cur)))
  /\ btn_send_sensitive' = FALSE
  /\ info' = SetInfo(info, "sending")
  /\ last' = Event("send")
  /\ UNCHANGED search_entry

\* on_send_clicked without its two checks
OnSendClickedUnchecked ==
  /\ Running
  /\ SendAccepted
  /\ UNCHANGED <<entry_api, entry_url, color_active, entry_system, cache_state, cache_list, workers, idle, timers, applied>>

\* on_send_clicked: without a model or without a message nothing happens
\* (set_info shows nothing); otherwise the message is sent
OnSendClicked ==
  /\ Running
  /\ IF GetSelectedModel(Cur) = Empty \/ Strip(entry_chat) = Empty THEN SendRejected ELSE SendAccepted
  /\ UNCHANGED <<entry_api, entry_url, color_active, entry_system, cache_state, cache_list, workers, idle, timers, applied>>

\* the user edits the message entry, which then holds text
TypeMessage(text) ==
  /\ Running
  /\ text # entry_chat
  /\ entry_chat' = text
  /\ UNCHANGED <<uiVars, entry_api, entry_url, color_active, entry_system, cache_state, cache_list, workers, idle, timers, last, applied, bubbles, btn_send_sensitive, chat_workers, search_entry, info>>

\* the Send button is clicked, or activated by Ctrl+Enter: only a sensitive
\* button emits "clicked"
SendButtonClicked ==
  /\ btn_send_sensitive
  /\ OnSendClicked

\* Enter in the message entry ("activate"), whatever the state of the button
EntryActivated == OnSendClicked

\* a JSON value that is neither a string nor null, such as a list of parts
NonStr == <<"<parts>">>

\* is v a str (NoVal stands for an absent key or null)
IsStr(v) == v # NoVal /\ v # NonStr

\* the body of a 200 response, as far as send_chat_completion looks at it:
\*   top      "dict" or "list": the JSON value at the top
\*   choices  "absent", "empty" or "one": the value of the key "choices"
\*   first    "dict" or "other": what choices[0] is
\*   message  "absent", "other" or "dict": what choices[0]["message"] is
\*   content  choices[0]["message"].get("content")
\*   text     choices[0].get("text")
Response(top, choices, first, message, content, text) == [top |-> top, choices |-> choices, first |-> first, message |-> message, content |-> content, text |-> text]

\* the bodies a server may answer with
Responses ==
  { Response("dict", "one", "dict", "dict", <<"h", "i">>, NoVal),
    Response("dict", "one", "dict", "dict", NoVal, <<"t">>),
    Response("dict", "one", "dict", "dict", Empty, NoVal),
    Response("dict", "one", "dict", "dict", NonStr, NoVal),
    Response("dict", "one", "dict", "other", NoVal, <<"t">>),
    Response("dict", "one", "dict", "absent", NoVal, <<"t">>),
    Response("dict", "one", "dict", "absent", NoVal, Empty),
    Response("dict", "one", "dict", "absent", NoVal, NonStr),
    Response("dict", "one", "other", "absent", NoVal, NoVal),
    Response("dict", "empty", "other", "absent", NoVal, NoVal),
    Response("dict", "absent", "other", "absent", NoVal, NoVal),
    Response("list", "absent", "other", "absent", NoVal, NoVal) }

\* json.dumps of a string, a null or a list
DumpValue(v) == IF v = NoVal THEN <<"null">> ELSE IF v = NonStr THEN <<"[", "1", "]">> ELSE <<"\"">> \o EscapeString(v) \o <<"\"">>

\* json.dumps(data, indent=2) of a response body
PrettyJson(data) ==
  IF data.top = "list" THEN <<"[", "]">>
  ELSE IF data.choices = "absent" THEN <<"{", "}">>
  ELSE IF data.choices = "empty" THEN <<"{", "choices", ":", "[", "]", "}">>
  ELSE IF data.first = "other" THEN <<"{", "choices", ":", "[", "1", "]", "}">>
  ELSE <<"{", "choices", ":", "[", "{">>
         \o (IF data.message = "dict" THEN <<"message", ":", "{">> \o (IF data.content = NoVal THEN << >> ELSE <<"content", ":">> \o DumpValue(data.content)) \o <<"}">>
             ELSE IF data.message = "other" THEN <<"message", ":", "1">> ELSE << >>)
         \o (IF data.text = NoVal THEN << >> ELSE <<"text", ":">> \o DumpValue(data.text))
         \o <<"}", "]", "}">>

\* send_chat_completion after r.json(), lines 1224-1239: what it returns, or
\* that it raises (data.get on a value that is not a dict)
SendChatCompletion(data) ==
  IF data.top # "dict" THEN [raised |-> TRUE, value |-> NoVal]
  ELSE IF data.choices # "one" THEN [raised |-> FALSE, value |-> PrettyJson(data)]
  ELSE LET content == IF data.first # "dict" THEN NoVal
                      ELSE IF data.message = "dict" THEN data.content
                      ELSE IF IsStr(data.text) THEN data.text
                      ELSE NoVal
       IN [raised |-> FALSE, value |-> IF content = NoVal \/ content = Empty THEN PrettyJson(data) ELSE content]

\* the role of the bubble a worker posts for an outcome of its request
ReplyRole(outcome) == IF outcome = "ok" THEN "assistant" ELSE "system"

\* a bubble appended by a thread that is not the main loop
ChatWorkerReplyDirect(t, outcome) ==
  /\ chat_workers[t].pc = "request"
  /\ bubbles' = Append(bubbles, ReplyRole(outcome))
  /\ btn_send_sensitive' = TRUE
  /\ idle' = Append(idle, ChatCallback("sensitive", "none", t, TRUE))
  /\ chat_workers' = [chat_workers EXCEPT ![t].pc = "posted"]
  /\ UNCHANGED <<uiVars, entry_api, entry_url, color_active, entry_system, cache_state, cache_list, workers, timers, last, applied, entry_chat, search_entry, info>>

\* on_send_clicked.worker: the request ends; the worker posts the bubble,
\* set_info and, in its finally clause, btn_send.set_sensitive(True)
ChatWorkerReply(t, outcome) ==
  /\ chat_workers[t].pc = "request"
  /\ idle' = idle \o << ChatCallback("bubble", ReplyRole(outcome), t, FALSE), InfoCallback(IF outcome = "ok" THEN "done" ELSE "failed", t, FALSE), ChatCallback("sensitive", "none", t, TRUE) >>
  /\ chat_workers' = [chat_workers EXCEPT ![t].pc = "posted"]
  /\ UNCHANGED <<uiVars, entry_api, entry_url, color_active, entry_system, cache_state, cache_list, workers, timers, last, applied, entry_chat, bubbles, btn_send_sensitive, search_entry, info>>

\* on_send_clicked.worker: the request is answered with status 200 and the
\* body data; the worker posts what send_chat_completion returns as an
\* assistant bubble, or the exception it raises as a system bubble, then
\* set_info and, in its finally clause, btn_send.set_sensitive(True)
ChatWorkerReceive(t, data) ==
  LET r == SendChatCompletion(data)
  IN /\ chat_workers[t].pc = "request"
     /\ idle' = idle \o << BubbleCallback(IF r.raised THEN "system" ELSE "assistant", IF r.raised THEN <<"E">> ELSE r.value, t), InfoCallback(IF r.raised THEN "failed" ELSE "done", t, FALSE), ChatCallback("sensitive", "none", t, TRUE) >>
     /\ chat_workers' = [chat_workers EXCEPT ![t].pc = "posted"]
     /\ UNCHANGED <<uiVars, entry_api, entry_url, color_active, entry_system, cache_state, cache_list, workers, timers, last, applied, entry_chat, bubbles, btn_send_sensitive, search_entry, info>>

\* the main loop runs _append_bubble(role, text), posted by a chat worker;
\* markdown_to_markup raises on a text that is neither a str nor None, and
\* then no row is added
IdleBubble ==
  /\ idle # << >> /\ Head(idle).kind = "bubble"
  /\ bubbles' = IF Head(idle).arg = NonStr THEN bubbles ELSE Append(bubbles, Head(idle).role)
  /\ idle' = Tail(idle)
  /\ last' = Event("bubble")
  /\ UNCHANGED <<uiVars, entry_api, entry_url, color_active, entry_system, cache_state, cache_list, workers, timers, applied, entry_chat, btn_send_sensitive, chat_workers, search_entry, info>>

\* the main loop runs btn_send.set_sensitive(True), the last callback of a
\* chat worker
IdleSensitive ==
  /\ idle # << >> /\ Head(idle).kind = "sensitive"
  /\ btn_send_sensitive' = TRUE
  /\ idle' = Tail(idle)
  /\ chat_workers' = [chat_workers EXCEPT ![Head(idle).slot] = IdleChatWorker]
  /\ last' = Event("sensitive")
  /\ UNCHANGED <<uiVars, entry_api, entry_url, color_active, entry_system, cache_state, cache_list, workers, timers, applied, entry_chat, bubbles, search_entry, info>>

\* the steps of the chat workers
ChatWorkerStep == \E t \in 1..MaxSend, outcome \in Outcomes : ChatWorkerReply(t, outcome)

\* the steps of the chat workers whose request is answered, with any body or
\* with an error
ChatReceiveStep ==
  \/ \E t \in 1..MaxSend, data \in Responses : ChatWorkerReceive(t, data)
  \/ \E t \in 1..MaxSend, outcome \in {"http_error", "error"} : ChatWorkerReply(t, outcome)

\* the callbacks of the chat workers that the main loop dispatches
ChatLoopStep ==
  \/ IdleBubble
  \/ IdleSensitive

\* the chat page: fetching, typing and sending with the restored model
NextChat ==
  \/ FetchModelsClickedAlone
  \/ \E text \in ChatInputs : TypeMessage(text)
  \/ SendButtonClicked
  \/ EntryActivated
  \/ MainLoopStep
  \/ ChatLoopStep
  \/ WorkerStep
  \/ ChatWorkerStep

SpecChat == Init /\ [][NextChat]_vars

\* the pickers, the search entry and Save Settings, with one fetch at a time
Next ==
  \/ \E i \in 0..(MaxListLen + 2) : PickChatModel(i)
  \/ \E raw \in SearchInputs : SearchChanged(raw)
  \/ FetchModelsClickedAlone
  \/ SaveClicked
  \/ MainLoopStep
  \/ WorkerStep

Spec == Init /\ [][Next]_vars

\* concurrent fetches: Fetch clicked while other fetches are outstanding
NextFetch ==
  \/ FetchModelsClicked
  \/ MainLoopStep
  \/ WorkerStep

SpecFetch == Init /\ [][NextFetch]_vars

\* the list functions (search projection, visibility, deduplication) on
\* cache files of up to MaxCatalog identifiers, one fetch at a time
InitLists == InitFrom(ConfigFiles, CacheFiles(MaxCatalog))

NextLists ==
  \/ \E raw \in SearchInputs : SearchChanged(raw)
  \/ FetchModelsClickedAlone
  \/ MainLoopStep
  \/ WorkerStep

SpecLists == InitLists /\ [][NextLists]_vars

\* the settings store: startup from any settings.json, the entries of the
\* settings page, Save Settings and picks, without fetches
InitSettings == InitFrom(SettingsFiles, CacheFiles(1))

NextSettings ==
  \/ \E text \in UrlInputs : EditUrl(text)
  \/ \E text \in ApiInputs : EditApi(text)
  \/ \E text \in SystemInputs : EditSystem(text)
  \/ \E i \in 0..1 : PickChatModel(i)
  \/ SaveClicked
  \/ IdleRestore

SpecSettings == InitSettings /\ [][NextSettings]_vars

\* one fetch at a time in an environment where models.json may not be
\* writable
NextFetchFail ==
  \/ FetchModelsClickedAlone
  \/ MainLoopStep
  \/ WorkerStep
  \/ WorkerWriteFails

SpecFetchFail == Init /\ [][NextFetchFail]_vars

\* sending messages and receiving the replies, without picks and fetches
NextReply ==
  \/ \E text \in ChatInputs : TypeMessage(text)
  \/ SendButtonClicked
  \/ EntryActivated
  \/ IdleRestore
  \/ IdleSetInfo
  \/ ChatLoopStep
  \/ ChatReceiveStep

SpecReply == Init /\ [][NextReply]_vars

\* the same from the startup with the stored model "a" in the catalog, under
\* a main loop that dispatches the callbacks posted to it and requests that
\* end (requests.post has a timeout of 120 s); the restore callback posted by
\* the constructor has run before anything can be sent
InitReplyFair == InitFrom({ConfigFile("ok", DumpJson([NoSettings EXCEPT !.model = <<"a">>]))}, {CacheFile("ok", << <<"a">> >>)})

SpecReplyFair == InitReplyFair /\ [][NextReply]_vars /\ WF_vars(IdleSetInfo) /\ WF_vars(ChatLoopStep) /\ WF_vars(ChatReceiveStep)

\* the chat page with its picker and search entry in use: picks, searches,
\* accent colour changes and sends that the server answers, on the catalog
\* read at startup
\* startup with the stored model "a" and any cached catalog
InitPickSend == InitFrom({ConfigFile("ok", DumpJson([NoSettings EXCEPT !.model = <<"a">>]))}, {CacheFile("ok", l) : l \in ListsUpTo(MaxListLen)})

\* texts typed into the search entry on the chat page
PickSendSearches == { << >>, <<"a">> }

NextPickSend ==
  \/ \E i \in 0..(MaxListLen - 1) : PickChatModel(i)
  \/ \E raw \in PickSendSearches : SearchChanged(raw)
  \/ \E i \in 0..1 : ColorChanged(i)
  \/ TypeMessage(<<"h", " ">>)
  \/ SendButtonClicked
  \/ EntryActivated
  \/ IdleRestore
  \/ IdleSetInfo
  \/ ChatLoopStep
  \/ \E t \in 1..MaxSend : ChatWorkerReply(t, "ok")

SpecPickSend == InitPickSend /\ [][NextPickSend]_vars

(***************************************************************************)
(* Properties.                                                             *)
(***************************************************************************)
\* the callback that ran last was a pick made by the user in the chat
\* picker; its "changed" handlers have all returned
UserPicked == last.op = "pick"

\* C1: after a user-driven selection change, once the "changed" handlers
\* have run, the chat picker and the settings picker show the same model
\* identifier (by value), whatever the catalog and the search term.
C1_PickersAgree == UserPicked => (ChatShown # NoVal /\ ChatShown = SettingsShown)

\* C1 witness: a pick made under an active filter, where the row of the
\* catalog with the picked index holds another identifier than the one picked
C1_Witness == UserPicked /\ search_text # Empty /\ ChatShown # NoVal /\ Row(model_store, chat_active) # NoVal /\ Row(model_store, chat_active) # ChatShown

C3_DisplayIsProjection == display_model = PopulateRows(model_store, search_text)

\* C4: after a filter re-projection, an identifier that was selected in the
\* chat picker and is still in its new list is selected again.
C4_SelectionKept == (last.op = "search" /\ last.chat_before # NoVal /\ InList(last.chat_before, display_model)) => ChatShown = last.chat_before

\* C5: after a filter re-projection, when the identifier that was selected
\* is no longer in the list, the chat picker has no selection.
C5_SelectionCleared == (last.op = "search" /\ last.chat_before # NoVal /\ ~InList(last.chat_before, display_model)) => ChatShown = NoVal

\* C6: a "changed" notification delivered while _updating_combo is set
\* changes nothing: not the other picker, not the settings, not the file.
C6_GuardedIgnored == frame_ok

\* C6 witness: a callback during which a notification arrived under the guard
C6_Witness == guarded /\ frame_ok /\ notifs > 0

\* C7: a pick or a search edit sets off a bounded cascade of "changed"
\* notifications, and leaves the guard clear.
C7_CascadeEnds == (last.op \in {"pick", "search"}) => (~runaway /\ ~updating)

\* C7 witness: a pick whose cascade delivered several notifications
C7_Witness == last.op = "pick" /\ notifs >= 3 /\ ~runaway /\ ~updating

\* C10: the catalog never holds an identifier twice.
C10_NoDuplicates == \A i, j \in 1..Len(model_store) : model_store[i] = model_store[j] => i = j

\* no fetch is outstanding: every worker has ended and its callbacks ran
FetchesDone == idle = << >> /\ \A t \in 1..MaxFetch : workers[t].pc = "idle"

WorkerMoved ==
  \/ \E t \in 1..MaxFetch : workers[t].pc \in {"fetch", "save", "write", "post"} /\ workers'[t] # workers[t]
  \/ \E t \in 1..MaxSend : chat_workers[t].pc = "request" /\ chat_workers'[t] # chat_workers[t]

\* the state owned by the main loop: catalog, display list, picker
\* selections, search text, guard, chat bubbles, message entry and the
\* sensitivity of the Send button
UiOwned == <<model_store, display_model, chat_active, settings_active, settings_text, search_text, updating, bubbles, entry_chat, btn_send_sensitive>>

\* C9: a step of a fetch worker or of a chat worker leaves the state owned
\* by the main loop unchanged; the worker only posts callbacks.
C9_WorkersPostOnly == [][WorkerMoved => UNCHANGED UiOwned]_vars

\* C9 witness: a fetch worker and a chat worker have both finished and
\* posted, their callbacks are still queued, and the catalog, the bubbles
\* and the Send button are as the main loop left them
C9_Witness ==
  /\ \E t \in 1..MaxFetch : workers[t].pc = "posted"
  /\ \E t \in 1..MaxSend : chat_workers[t].pc = "posted"
  /\ \E i \in 1..Len(idle) : idle[i].kind = "populate" /\ idle[i].models # << >>
  /\ \E i \in 1..Len(idle) : idle[i].kind = "bubble"
  /\ model_store = << >>
  /\ bubbles = << "user" >>
  /\ ~btn_send_sensitive

\* C11: every fetch worker that got past fetch_models issued a list-models
\* request, also when models.json already existed, and the list that
\* populate_models applies becomes the whole catalog.
C11_FetchAsksRemote ==
  /\ \A t \in 1..MaxFetch : workers[t].pc \in {"save", "write", "post", "posted"} => workers[t].requested
  /\ last.op = "populate" => model_store = applied

\* C12: as long as only startup code has run (the constructor and the
\* callbacks it posted), no fetch worker exists, so no list-models request
\* is issued, and the catalog is the content of the cache file when that file
\* exists and parses and is empty otherwise; a worker starts only with Fetch.
C12_StartupNeverFetches ==
  last.startup => /\ \A t \in 1..MaxFetch : workers[t] = IdleWorker
                  /\ model_store = IF cache_state = "ok" THEN cache_list ELSE << >>

\* C12 witness: startup has finished (the restore callback ran) with a stored
\* model but no usable cache file, and the catalog is still empty
C12_Witness == last.op = "restore" /\ last.startup /\ cache_state # "ok" /\ settings.model # NoVal /\ model_store = << >> /\ idle = << >>

\* C13: a Send triggered with no model selected or with an empty or
\* whitespace-only message starts no chat worker (no request), appends no
\* bubble, posts no callback, leaves the Send button as it was, and changes
\* neither self.settings nor settings.json.
C13_RejectedSendChangesNothing == [][(OnSendClicked /\ (GetSelectedModel(Cur) = Empty \/ Strip(entry_chat) = Empty)) => UNCHANGED <<bubbles, btn_send_sensitive, chat_workers, idle, settings, config_state, config_data>>]_vars

\* C13 witness: Send was triggered with a model selected and a message of
\* blanks only; the conversation is empty, the button enabled, no worker runs
C13_Witness == last.op = "rejected" /\ GetSelectedModel(Cur) # Empty /\ entry_chat # Empty /\ Strip(entry_chat) = Empty /\ bubbles = << >> /\ btn_send_sensitive /\ InFlight = 0

\* C14: once a model-list fetch has failed, or a Send has been rejected for
\* want of a model or of a message, a status message is visible to the user.
C14_FailureShown == last.op \in {"rejected", "fetch_failed"} => info # NoVal

\* C15: after a search edit the chat picker's list is: the identifiers of
\* the catalog whose lowercase form equals the term, then those that start
\* with it without being equal, then the others that contain it, each group
\* in catalog order; it is a permutation of the visible identifiers, and the
\* catalog itself when the term is empty.
C15_BucketsInOrder ==
  last.op = "search" =>
    LET t == search_text
        exact == SelectSeq(model_store, LAMBDA m : Lower(m) = t)
        prefix == SelectSeq(model_store, LAMBDA m : Lower(m) # t /\ StartsWith(Lower(m), t))
        rest == SelectSeq(model_store, LAMBDA m : ~StartsWith(Lower(m), t) /\ Contains(t, Lower(m)))
        visible == SelectSeq(model_store, LAMBDA m : t = Empty \/ Contains(t, Lower(m)))
    IN /\ display_model = exact \o prefix \o rest
       /\ Len(display_model) = Len(visible)
       /\ \A m \in Ids : Cardinality({i \in 1..Len(display_model) : display_model[i] = m}) = Cardinality({i \in 1..Len(visible) : visible[i] = m})
       /\ t = Empty => display_model = model_store

\* C15 witness: a search whose term has an exact, a prefix and a contains
\* match in the catalog, listed in another order than the catalog's
C15_Witness ==
  /\ last.op = "search"
  /\ search_text # Empty
  /\ Len(display_model) = 3
  /\ Lower(display_model[1]) = search_text
  /\ Lower(display_model[2]) # search_text /\ StartsWith(Lower(display_model[2]), search_text)
  /\ ~StartsWith(Lower(display_model[3]), search_text)
  /\ display_model # model_store

\* C16: the term of a search is the search entry's text trimmed and
\* lowercased, and an identifier of the catalog is listed if and only if the
\* term is empty or the identifier's lowercase form contains the term.
C16_VisibleIffContains ==
  last.op = "search" =>
    /\ search_text = Lower(Strip(search_entry))
    /\ \A i \in 1..Len(model_store) : InList(model_store[i], display_model) <=> (search_text = Empty \/ Contains(search_text, Lower(model_store[i])))

\* C16 witness: a search text with a blank or a capital, under which an
\* identifier with a capital is listed and another identifier is not
C16_Witness ==
  /\ last.op = "search"
  /\ search_entry # search_text
  /\ \E i \in 1..Len(model_store) : model_store[i] # Lower(model_store[i]) /\ InList(model_store[i], display_model)
  /\ \E i \in 1..Len(model_store) : ~InList(model_store[i], display_model)

\* C17: the list fetch_models returns for the content of models.json has no
\* duplicates, holds exactly the identifiers of the file, and orders them by
\* their first occurrence in the file.
C17_DedupeKeepsFirst ==
  [][\A t \in 1..MaxFetch :
       (workers[t].pc = "fetch" /\ workers'[t].pc = "write") =>
         LET out == workers'[t].models
         IN /\ \A i, j \in 1..Len(out) : out[i] = out[j] => i = j
            /\ {out[i] : i \in 1..Len(out)} = {cache_list[i] : i \in 1..Len(cache_list)}
            /\ \A i, j \in 1..Len(out) : i < j => FirstIndex(out[i], cache_list) < FirstIndex(out[j], cache_list)]_vars

\* C17 witness: a worker holds the two identifiers of a file of three
\* entries whose first and last are the same
C17_Witness == \E t \in 1..MaxFetch : workers[t].pc = "write" /\ ~workers[t].requested /\ Len(cache_list) = 3 /\ cache_list[1] = cache_list[3] /\ cache_list[1] # cache_list[2] /\ Len(workers[t].models) = 2

\* C18: whenever self.settings or settings.json holds a base_url, it ends
\* with "/"; in particular after Save Settings, whatever the Base URL entry
\* holds.
C18_BaseUrlEndsWithSlash ==
  Running =>
    /\ settings.base_url # NoVal => settings.base_url # Empty /\ settings.base_url[Len(settings.base_url)] = "/"
    /\ LET file == LoadSettings(config_state, config_data)
       IN file.base_url # NoVal => file.base_url # Empty /\ file.base_url[Len(file.base_url)] = "/"

\* C19: when settings.json is missing, cannot be opened or does not hold a
\* settings record, load_settings returns the empty record and the window
\* starts with every field at its default.
C19_BadConfigGivesDefaults ==
  (last.op \in {"init", "crashed"} /\ (config_state # "ok" \/ ParseJson(config_data).kind # "record")) =>
    /\ Running
    /\ settings = NoSettings
    /\ entry_api = Empty /\ entry_url = DefaultBaseUrl /\ color_active = 0

\* C20: after Save Settings has written self.settings with save_settings,
\* load_settings returns a record equal to self.settings, the keys the
\* program does not interpret included.
C20_LoadAfterSave == last.op = "save" => config_state = "ok" /\ ParseJson(config_data).kind = "record" /\ LoadSettings(config_state, config_data) = settings

\* C20 witness: a saved record with an uninterpreted key whose value holds a
\* quote, a backslash and a newline, an API key holding a backslash, and no
\* model
C20_Witness == last.op = "save" /\ settings.note = <<"x", "\"", "\\", "\n">> /\ settings.api_key = <<"\\", "n">> /\ settings.model = NoVal /\ settings.base_url = <<"h", "/">>

\* C23: at most one chat-completion request is in flight at any time: while
\* a worker runs its request, no user action starts a second one.
C23_OneRequestInFlight == Cardinality({t \in 1..MaxSend : chat_workers[t].pc = "request"}) <= 1

\* C25: when Save Settings is clicked while the settings picker's entry holds
\* a non-empty model M, then after all handlers have run self.settings and
\* settings.json hold M as the model and the chat picker shows M.
C25_SaveMirrorsModel == [][(SaveClicked /\ Strip(settings_text) # Empty) => (settings'.model = Strip(settings_text) /\ LoadSettings(config_state', config_data').model = Strip(settings_text) /\ ChatShown' = Strip(settings_text))]_vars

\* C28: whenever no model fetch is in flight and models.json exists, the list
\* in models.json equals the in-memory catalog.
C28_CacheEqualsCatalog == (Running /\ cache_state = "ok" /\ \A t \in 1..MaxFetch : workers[t].pc = "idle") => cache_list = model_store

\* C29: the restore callback posted by the constructor, run before any user
\* action: if the stored model M is in the catalog loaded from the cache,
\* both pickers then select M; if M is not in the catalog or no model is
\* stored, neither picker has a selection; in both cases self.settings and
\* settings.json are left as they were.
C29_RestoreSelectsSaved ==
  [][(IdleRestore /\ last.op = "init") =>
       /\ UNCHANGED <<settings, config_state, config_data>>
       /\ IF settings.model # NoVal /\ InList(settings.model, model_store)
            THEN /\ ChatShown' = settings.model
                 /\ SettingsShown' = settings.model
                 /\ Row(model_store', settings_active') = settings.model
            ELSE chat_active' = -1 /\ settings_active' = -1 /\ settings_text' = Empty]_vars

\* C29 witness: startup has restored a stored model that is not the first
\* row of the catalog, in both pickers
C29_Witness == last.op = "restore" /\ last.startup /\ settings.model # NoVal /\ chat_active > 0 /\ ChatShown = settings.model /\ SettingsShown = settings.model /\ config_state = "ok"

\* C27: when a fetch requested by the user fails, the catalog and the chat
\* picker's list are, once the failure has been reported, what they were
\* before Fetch Models was clicked.
C27_FailedFetchKeepsCatalog ==
  [][(IdleSetInfo /\ Head(idle).text = "fetch_error") =>
       /\ model_store' = workers[Head(idle).slot].before[1]
       /\ display_model' = workers[Head(idle).slot].before[2]]_vars

\* C30: after Save Settings the system_prompt of self.settings and of
\* settings.json, read as "" when the key is absent, is the trimmed text of
\* the System Prompt entry.
C30_SystemPromptSaved ==
  last.op = "save" =>
    LET file == LoadSettings(config_state, config_data)
    IN /\ (IF settings.system_prompt = NoVal THEN Empty ELSE settings.system_prompt) = Strip(entry_system)
       /\ (IF file.system_prompt = NoVal THEN Empty ELSE file.system_prompt) = Strip(entry_system)

\* C21: for a 200 response, send_chat_completion returns
\* choices[0].message.content when that is a non-empty string, otherwise
\* choices[0].text when that is a (non-empty) string, and otherwise the
\* pretty-printed JSON of the whole body; the value is never empty or absent.
C21_ReplyText ==
  [][\A t \in 1..MaxSend, data \in Responses :
       ChatWorkerReceive(t, data) =>
         LET first == data.top = "dict" /\ data.choices = "one" /\ data.first = "dict"
             expected == IF first /\ data.message = "dict" /\ IsStr(data.content) /\ data.content # Empty THEN data.content
                         ELSE IF first /\ IsStr(data.text) /\ data.text # Empty THEN data.text
                         ELSE PrettyJson(data)
             posted == idle'[Len(idle) + 1]
         IN posted.role = "assistant" /\ posted.arg = expected /\ posted.arg # Empty /\ posted.arg # NoVal]_vars

\* C22: every Send that passed validation is followed, once its request has
\* ended in whatever way, by a state in which no request is outstanding, the
\* Send button is enabled and the conversation holds one reply bubble for
\* each user bubble.
C22_EveryRequestAnswered == (InFlight > 0) ~> (InFlight = 0 /\ btn_send_sensitive /\ Cardinality({i \in 1..Len(bubbles) : bubbles[i] # "user"}) = Cardinality({i \in 1..Len(bubbles) : bubbles[i] = "user"}))

\* C24: whenever on_send_clicked starts a request, the model in the request
\* is the one the chat picker shows at that moment, and it is the model that
\* on_send_clicked writes to settings.json as the last-used model.
C24_RequestModelIsPicked ==
  [][\A t \in 1..MaxSend :
       (chat_workers[t].pc = "idle" /\ chat_workers'[t].pc = "request")
         => /\ chat_workers'[t].model = ChatShown
            /\ LoadSettings(config_state', config_data').model = chat_workers'[t].model]_vars

\* the operations that write settings.json from the main loop
WriteOps == {"send", "save", "color"}

\* C26: when the callback that ran last has written settings.json, the
\* record read back from the file equals self.settings.
C26_FileEqualsSettings == last.op \in WriteOps => LoadSettings(config_state, config_data) = settings

====
